---- MODULE Spec2Model ----
(***************************************************************************)
(* Model of the checkout-confirmation endpoint confirm_checkout            *)
(* (src/inventory_confirm_checkout.py) over the quantity ledger            *)
(* (ItemsU, Room, ItemRoom, ItemProject, Items) and the request session.   *)
(*                                                                         *)
(* One behaviour is one request: Init is a store the application can hold  *)
(* before the request (units in any stage, a ledger whose ItemProject rows *)
(* equal their ItemRoom sums) together with the session as the staging     *)
(* views left it; the actions are the steps of the view in program order.  *)
(*                                                                         *)
(* Spec        one confirm_checkout request.                               *)
(* SpecRetry   a failed request, the offending unit corrected, a retry.    *)
(* SpecSequel  two requests with the first one's units reserved again.     *)
(* SpecLegacy  one request over a ledger and totals left by earlier ones.  *)
(* SpecUpload  one add_inventory request (src/inventory_upload.py).        *)
(* SpecRuns    requests one after another over the same store.             *)
(* SpecRace    concurrent requests, interleaved at single store calls.     *)
(***************************************************************************)
EXTENDS Integers, Sequences, FiniteSets, TLC

\* ------------------------------------------------------------------ bounds
NUnits == 3
NItems == 2
NProjects == 2
MaxBatch == 3
MaxRetries == 1
NRequests == 2

UnitIds == 1..NUnits
ItemIds == 1..NItems
ProjectIds == 1..NProjects

\* project_id = None on a unit
None == 0

\* ItemsU.item_id is fixed at creation. Two catalogues: the units dealt
\* round-robin to the items, or every unit a copy of item 1.
Layouts == {"spread", "single"}

ItemOf(layout, u) == IF layout = "single" THEN 1 ELSE ((u - 1) % NItems) + 1

\* Items.sku_num is a unique key of Items: the sku of item i.
sku_num(i) == 100 + i

VARIABLES
    itemsU,           \* ItemsU table: unit id -> [item_id, stage, project_id]
    rooms,            \* Room table: set of [project_id, room_name]
    itemRoom,         \* ItemRoom table: set of rows keyed by (item_id, room)
    itemProject,      \* ItemProject table: set of rows keyed by (item_id, project_id)
    items,            \* Items table: item id -> quantities
    session,          \* request.session: a function on the keys present
    itemLog,          \* audit log: entries written by create_item_log
    outbox,           \* emails sent by email.send()
    pc,               \* position of the request in confirm_checkout
    project_id,       \* the request's target project
    idx,              \* position of the per-unit loop in the staged list
    item_id_list,     \* local: item ids touched
    stolen_projects,  \* local: stolen-reservation record
    mail_pos,         \* local: <<project index, item index>> of the email loop
    response,         \* the JsonResponse: "none", "success", "failure", "error"
    pre,              \* the store and session as the request found them
    upload,           \* the add_inventory request: its position, locals and response
    requests          \* concurrent confirm_checkout requests: position and locals of each

vars == <<itemsU, rooms, itemRoom, itemProject, items, session, itemLog, outbox,
          pc, project_id, idx, item_id_list, stolen_projects, mail_pos,
          response, pre, upload, requests>>

store == <<itemsU, rooms, itemRoom, itemProject, items>>

SessionKey == "checkout_session_item_us"
MiscKey == "checkout_session_items"

\* ------------------------------------------------------------------ helpers
RECURSIVE SumQty(_)
SumQty(rows) ==
    IF rows = {} THEN 0
    ELSE LET r == CHOOSE x \in rows : TRUE
         IN r.item_quantity + SumQty(rows \ {r})

\* ItemRoom.objects.filter(item=item, room__project=project)
RoomsOf(ir, item, proj) ==
    {r \in ir : r.item_id = item /\ r.room_id.project_id = proj}

Unassigned(proj) == [project_id |-> proj, room_name |-> "Unassigned"]
Other(proj) == [project_id |-> proj, room_name |-> "Other"]

\* Mutant: the key is left in the session.
DelKey_Keeps(s, key) == s

\* del request.session[key]
DelKey(s, key) == [k \in (DOMAIN s) \ {key} |-> s[k]]

\* ------------------------------------------------------------------ initial store
\* A unit is available or moving (no project), or reserved by / checked out to a project.
UnitStates(item) ==
    {[item_id |-> item, stage |-> st, project_id |-> None] : st \in {"a", "m"}}
    \cup {[item_id |-> item, stage |-> st, project_id |-> q] :
            st \in {"r", "c"}, q \in ProjectIds}

InitItemsU ==
    {us \in [UnitIds -> UNION {UnitStates(i) : i \in ItemIds}] :
       \E layout \in Layouts : \A u \in UnitIds : us[u] \in UnitStates(ItemOf(layout, u))}

CountUnits(us, item, st, proj) ==
    Cardinality({u \in UnitIds : /\ us[u].item_id = item
                                 /\ us[u].stage = st
                                 /\ us[u].project_id = proj})

Row(item, room, qty, holder, reserved) ==
    [item_id |-> item, room_id |-> room, item_quantity |-> qty,
     item_quantity_holder |-> holder, all_reserved |-> reserved]

\* The ledger the reservation and checkout paths leave for the units us:
\*   "exact"  reserved units counted in a room of their project, checked-out
\*            units in its Unassigned room, the three counters equal;
\*   "skewed" as exact, but the reserved units' row also counts one unit that
\*            is not reserved (all_reserved and the holder lag by one);
\*   "none"   no ItemRoom row at all (reservations not yet placed in a room).
LedgerShapes == {"exact", "skewed", "none"}

\* Ledgers left behind by requests that ended before the final sweep:
\*   "drained" a row that still counts its units but whose all_reserved is 0.
LegacyShapes == {"skewed", "drained"}

InitItemRoom(us, shape) ==
    IF shape = "none" THEN {}
    ELSE
      {Row(i, Other(q), CountUnits(us, i, "r", q) + (IF shape = "skewed" THEN 1 ELSE 0),
           CountUnits(us, i, "r", q),
           IF shape = "drained" THEN 0 ELSE CountUnits(us, i, "r", q)) :
         <<i, q>> \in {x \in ItemIds \X ProjectIds : CountUnits(us, x[1], "r", x[2]) > 0}}
      \cup
      {Row(i, Unassigned(q), CountUnits(us, i, "c", q),
           CountUnits(us, i, "c", q), CountUnits(us, i, "c", q)) :
         <<i, q>> \in {x \in ItemIds \X ProjectIds : CountUnits(us, x[1], "c", x[2]) > 0}}

\* ItemProject rows equal to the ItemRoom sums (a row exists where the sum is positive).
InitItemProject(ir) ==
    {[item_id |-> i, project_id |-> q, reserved_quantity |-> SumQty(RoomsOf(ir, i, q))] :
       <<i, q>> \in {x \in ItemIds \X ProjectIds : RoomsOf(ir, x[1], x[2]) # {}}}

InitItems(us) ==
    [i \in ItemIds |->
       LET av == Cardinality({u \in UnitIds : us[u].item_id = i /\ us[u].stage \in {"a", "m"}})
           rs == Cardinality({u \in UnitIds : us[u].item_id = i /\ us[u].stage \in {"r", "c"}})
       IN [available_quantity |-> av, reserved_quantity |-> rs, total_quantity |-> av + rs,
           previous_total_quantity |-> av + rs]]

\* No concurrent requests are running.
NoRequests == <<>>

\* request.session without the four staged sets of add_inventory.
NoBundle ==
    [present |-> FALSE, new_items |-> {}, items_to_change |-> {},
     items_to_delete |-> <<>>, items_to_subtract |-> {}]

\* No add_inventory request is running.
UploadIdle ==
    [pc |-> "idle", sheet |-> <<>>, rows |-> <<>>, pos |-> 1, new_items |-> {},
     items_to_change |-> {}, items_to_delete |-> <<>>, items_to_subtract |-> {},
     labels |-> <<>>, response |-> "none", named |-> {}, changes |-> FALSE,
     session |-> NoBundle, pre |-> [items |-> <<>>, session |-> NoBundle]]

\* Staged unit lists: any sequence of unit ids up to MaxBatch (an id may be staged twice).
StagedLists == UNION {[1..n -> UnitIds] : n \in 0..MaxBatch}

InitSessions ==
    {[k \in {SessionKey} |-> l] : l \in StagedLists}
    \cup {[k \in {SessionKey, MiscKey} |-> IF k = SessionKey THEN l ELSE <<>>] :
            l \in {s \in StagedLists : Len(s) = 1}}
    \cup {[k \in {MiscKey} |-> <<>>], [k \in {} |-> <<>>]}

\* Item totals that were not recalculated after the last change of the counts:
\* total_quantity is one above available_quantity + reserved_quantity.
StaleItems(us) ==
    [i \in ItemIds |-> [InitItems(us)[i] EXCEPT !.total_quantity = @ + 1]]

InitStore(shapes, totals) ==
    /\ itemsU \in InitItemsU
    /\ \E shape \in shapes : itemRoom = InitItemRoom(itemsU, shape)
    /\ rooms = {r.room_id : r \in itemRoom}
    /\ itemProject = InitItemProject(itemRoom)
    /\ \E t \in totals : items = IF t = "stale" THEN StaleItems(itemsU) ELSE InitItems(itemsU)

InitRequest(shapes, totals) ==
    /\ InitStore(shapes, totals)
    /\ session \in InitSessions
    /\ itemLog = {}
    /\ outbox = <<>>
    /\ pc = "start"
    /\ project_id = None
    /\ idx = 1
    /\ item_id_list = <<>>
    /\ stolen_projects = <<>>
    /\ mail_pos = <<1, 1>>
    /\ response = "none"
    /\ pre = [itemsU |-> itemsU, itemRoom |-> itemRoom,
              itemProject |-> itemProject, session |-> session, run |-> 1]
    /\ upload = UploadIdle
    /\ requests = NoRequests

Init == InitRequest(LedgerShapes, {"fresh"})

\* ------------------------------------------------------------------ ledger operations
HasRow(ir, item, room) == \E r \in ir : r.item_id = item /\ r.room_id = room

GetRow(ir, item, room) == CHOOSE r \in ir : r.item_id = item /\ r.room_id = room

\* Mutant: the bump of an existing row forgets all_reserved.
BumpItemRoom_SkipsReserved(ir, item, room) ==
    IF HasRow(ir, item, room)
    THEN LET r == GetRow(ir, item, room)
         IN (ir \ {r}) \cup {Row(item, room, r.item_quantity + 1,
                                 r.item_quantity_holder + 1, r.all_reserved)}
    ELSE ir \cup {Row(item, room, 1, 1, 1)}

\* ItemRoom.objects.get_or_create(item, room), then +1 on the three counters
\* of an existing row or exactly 1 on a row just created, then save().
BumpItemRoom(ir, item, room) ==
    IF HasRow(ir, item, room)
    THEN LET r == GetRow(ir, item, room)
         IN (ir \ {r}) \cup {Row(item, room, r.item_quantity + 1,
                                 r.item_quantity_holder + 1, r.all_reserved + 1)}
    ELSE ir \cup {Row(item, room, 1, 1, 1)}

\* ItemProject.objects.get_or_create(item, project); reserved_quantity = the sum
\* of item_quantity over the ItemRoom rows of the item in the project's rooms.
SyncItemProject(ip, ir, item, proj) ==
    {r \in ip : ~(r.item_id = item /\ r.project_id = proj)}
    \cup {[item_id |-> item, project_id |-> proj,
           reserved_quantity |-> SumQty(RoomsOf(ir, item, proj))]}

\* ItemRoom.objects.filter(item_quantity__lt=1).delete()
DeleteEmptyRows(ir) == {r \in ir : ~(r.item_quantity < 1)}

\* Mutant: the sweep spares a row whose item_quantity is still positive.
DeleteUnreservedRows_SparesCounted(ir) ==
    {r \in ir : ~(r.all_reserved < 1 /\ r.item_quantity < 1)}

\* ItemRoom.objects.filter(all_reserved__lt=1).delete()
DeleteUnreservedRows(ir) == {r \in ir : ~(r.all_reserved < 1)}

\* Mutant: the back-out forgets item_quantity and lowers only the two mirrors.
BackOutRow_KeepsQuantity(ir, prev) ==
    (ir \ {prev}) \cup {Row(prev.item_id, prev.room_id, prev.item_quantity,
                            prev.item_quantity_holder - 1, prev.all_reserved - 1)}

\* previous_item_room: -1 on the three counters; delete() below 1, else save().
BackOutRow(ir, prev) ==
    LET r == Row(prev.item_id, prev.room_id, prev.item_quantity - 1,
                 prev.item_quantity_holder - 1, prev.all_reserved - 1)
    IN IF r.item_quantity < 1 THEN ir \ {prev} ELSE (ir \ {prev}) \cup {r}

\* ------------------------------------------------------------------ stolen-reservation record
ProjectIndex(sp, proj) ==
    CHOOSE k \in 1..Len(sp) :
        /\ sp[k].project_id = proj
        /\ \A j \in 1..(k - 1) : sp[j].project_id # proj

ItemIndex(its, sku) ==
    CHOOSE k \in 1..Len(its) :
        /\ its[k].sku_num = sku
        /\ \A j \in 1..(k - 1) : its[j].sku_num # sku

\* Mutant: every stolen unit appends its own entry.
TrackItem_AlwaysAppends(its, sku) == Append(its, [sku_num |-> sku, quantity |-> 1])

\* The loop over project_info["items"]: bump the first entry of the sku, else append one.
TrackItem(its, sku) ==
    IF \E k \in 1..Len(its) : its[k].sku_num = sku
    THEN [its EXCEPT ![ItemIndex(its, sku)].quantity = @ + 1]
    ELSE Append(its, [sku_num |-> sku, quantity |-> 1])

\* The loop over stolen_projects: update the first entry of the project, else append one.
TrackStolen(sp, proj, sku) ==
    IF \E k \in 1..Len(sp) : sp[k].project_id = proj
    THEN [sp EXCEPT ![ProjectIndex(sp, proj)].items = TrackItem(@, sku)]
    ELSE Append(sp, [project_id |-> proj,
                     items |-> <<[sku_num |-> sku, quantity |-> 1]>>])

\* ------------------------------------------------------------------ confirm_checkout
Staged == session[SessionKey]

\* The unit the per-unit loop is at.
Current == Staged[idx]

InLoop == pc = "loop" /\ idx <= Len(Staged)

IsSteal(item_u) == item_u.stage = "r" /\ item_u.project_id # project_id

\* Lines 10-20: read project_id; enter the block only if the staged list is in the session.
Begin ==
    /\ pc = "start"
    /\ \E p \in ProjectIds : project_id' = p
    /\ pc' = IF SessionKey \in DOMAIN session
             THEN (IF Len(Staged) = 0 THEN "email" ELSE "loop")
             ELSE "cleanup"
    /\ UNCHANGED <<upload, requests, store, session, itemLog, outbox, idx, item_id_list,
                   stolen_projects, mail_pos, response, pre>>

\* Mutant: a unit whose audit-log write failed is not committed.
LogAndCommit_NeedsLog(us, u) ==
    /\ \E logged \in BOOLEAN :
         /\ itemLog' = IF logged
                       THEN itemLog \cup {[action |-> "c", item_u_id |-> u,
                                           project_id |-> project_id]}
                       ELSE itemLog
         /\ itemsU' = IF logged
                      THEN [us EXCEPT ![u] = [@ EXCEPT !.stage = "c",
                                                       !.project_id = project_id]]
                      ELSE us
    /\ idx' = idx + 1
    /\ pc' = IF idx + 1 > Len(Staged) THEN "email" ELSE "loop"
    /\ item_id_list' = Append(item_id_list, itemsU[u].item_id)

\* Lines 167-178 and the loop's advance: the audit-log write (its failure is
\* swallowed), then stage "c" and the target project on the unit.
LogAndCommit(us, u) ==
    /\ \E logged \in BOOLEAN :
         itemLog' = IF logged
                    THEN itemLog \cup {[action |-> "c", item_u_id |-> u,
                                        project_id |-> project_id]}
                    ELSE itemLog
    /\ itemsU' = [us EXCEPT ![u] = [@ EXCEPT !.stage = "c", !.project_id = project_id]]
    /\ idx' = idx + 1
    /\ pc' = IF idx + 1 > Len(Staged) THEN "email" ELSE "loop"
    /\ item_id_list' = Append(item_id_list, itemsU[u].item_id)

\* Lines 29-66: the unit goes to the target project's Unassigned room.
PlaceInUnassigned(ir, ip, item) ==
    LET ir1 == BumpItemRoom(ir, item, Unassigned(project_id))
    IN [itemRoom |-> DeleteEmptyRows(ir1),
        itemProject |-> SyncItemProject(ip, ir1, item, project_id)]

\* Lines 29-66 for an available unit.
CheckoutAvailable ==
    /\ InLoop
    /\ itemsU[Current].stage = "a"
    /\ LET placed == PlaceInUnassigned(itemRoom, itemProject, itemsU[Current].item_id)
       IN /\ itemRoom' = placed.itemRoom
          /\ itemProject' = placed.itemProject
    /\ rooms' = rooms \cup {Unassigned(project_id)}
    /\ LogAndCommit(itemsU, Current)
    /\ UNCHANGED <<upload, requests, items, session, outbox, project_id, stolen_projects, mail_pos,
                   response, pre>>

\* Mutant: the stolen-reservation record is kept only when a row was backed out.
CheckoutStolen_TracksBackedOutOnly ==
    /\ InLoop
    /\ IsSteal(itemsU[Current])
    /\ LET item == itemsU[Current].item_id
           loser == itemsU[Current].project_id
           placed == PlaceInUnassigned(itemRoom, itemProject, item)
           previous == RoomsOf(placed.itemRoom, item, loser)
       IN /\ \/ /\ previous = {}
                /\ itemRoom' = placed.itemRoom
                /\ itemProject' = placed.itemProject
             \/ \E previous_item_room \in previous :
                  LET ir2 == BackOutRow(placed.itemRoom, previous_item_room)
                  IN /\ itemRoom' = ir2
                     /\ itemProject' = SyncItemProject(placed.itemProject, ir2, item, loser)
          /\ stolen_projects' = IF previous = {}
                                THEN stolen_projects
                                ELSE TrackStolen(stolen_projects, loser, sku_num(item))
    /\ rooms' = rooms \cup {Unassigned(project_id)}
    /\ LogAndCommit(itemsU, Current)
    /\ UNCHANGED <<upload, requests, items, session, outbox, project_id, mail_pos, response, pre>>

\* Lines 29-125 for a unit reserved by another project: place it, back out one
\* ItemRoom row of the losing project if it has one, record the stolen reservation.
\* filter(...).first() takes the row of lowest primary key; ItemRoom keys are not
\* part of the state, so any row of the item in the losing project's rooms may be it.
CheckoutStolen ==
    /\ InLoop
    /\ IsSteal(itemsU[Current])
    /\ LET item == itemsU[Current].item_id
           loser == itemsU[Current].project_id
           placed == PlaceInUnassigned(itemRoom, itemProject, item)
           previous == RoomsOf(placed.itemRoom, item, loser)
       IN /\ \/ /\ previous = {}
                /\ itemRoom' = placed.itemRoom
                /\ itemProject' = placed.itemProject
             \/ \E previous_item_room \in previous :
                  LET ir2 == BackOutRow(placed.itemRoom, previous_item_room)
                  IN /\ itemRoom' = ir2
                     /\ itemProject' = SyncItemProject(placed.itemProject, ir2, item, loser)
          /\ stolen_projects' = TrackStolen(stolen_projects, loser, sku_num(item))
    /\ rooms' = rooms \cup {Unassigned(project_id)}
    /\ LogAndCommit(itemsU, Current)
    /\ UNCHANGED <<upload, requests, items, session, outbox, project_id, mail_pos, response, pre>>

\* ItemsU.objects.filter(item_id=..., stage="a").first(): the lowest unit id.
FirstAvailable(us, item) ==
    LET avail == {u \in UnitIds : us[u].item_id = item /\ us[u].stage = "a"}
    IN IF avail = {} THEN None
       ELSE CHOOSE u \in avail : \A v \in avail : u <= v

\* Mutant: the promotion updates every available unit of the item, not the first.
Promote_AllAvailable(us, item) ==
    [u \in UnitIds |->
       IF us[u].item_id = item /\ us[u].stage = "a"
       THEN [us[u] EXCEPT !.stage = "m", !.project_id = None]
       ELSE us[u]]

\* Lines 130-134: promote another available unit of the item to "m", project None.
Promote(us, item) ==
    LET new_item == FirstAvailable(us, item)
    IN IF new_item = None THEN us
       ELSE [us EXCEPT ![new_item] = [@ EXCEPT !.stage = "m", !.project_id = None]]

\* Lines 128-157 for a unit in the move stage.
CheckoutMoving ==
    /\ InLoop
    /\ itemsU[Current].stage = "m"
    /\ itemRoom' = BumpItemRoom(itemRoom, itemsU[Current].item_id, Unassigned(project_id))
    /\ rooms' = rooms \cup {Unassigned(project_id)}
    /\ LogAndCommit(Promote(itemsU, itemsU[Current].item_id), Current)
    /\ UNCHANGED <<upload, requests, itemProject, items, session, outbox, project_id, stolen_projects,
                   mail_pos, response, pre>>

\* Mutant: a unit reserved by the target project takes the available branch.
CheckoutOwnReserved_Placed ==
    /\ InLoop
    /\ itemsU[Current].stage = "r"
    /\ ~IsSteal(itemsU[Current])
    /\ LET placed == PlaceInUnassigned(itemRoom, itemProject, itemsU[Current].item_id)
       IN /\ itemRoom' = placed.itemRoom
          /\ itemProject' = placed.itemProject
    /\ rooms' = rooms \cup {Unassigned(project_id)}
    /\ LogAndCommit(itemsU, Current)
    /\ UNCHANGED <<upload, requests, items, session, outbox, project_id, stolen_projects, mail_pos,
                   response, pre>>

\* A unit reserved by the target project matches no branch (lines 29, 128, 160).
CheckoutOwnReserved ==
    /\ InLoop
    /\ itemsU[Current].stage = "r"
    /\ ~IsSteal(itemsU[Current])
    /\ LogAndCommit(itemsU, Current)
    /\ UNCHANGED <<upload, requests, rooms, itemRoom, itemProject, items, session, outbox, project_id,
                   stolen_projects, mail_pos, response, pre>>

\* Mutant: the unexpected stage is reported but the loop skips the unit and goes on.
UnexpectedStage_Continues ==
    /\ InLoop
    /\ itemsU[Current].stage \notin {"a", "r", "m"}
    /\ item_id_list' = Append(item_id_list, itemsU[Current].item_id)
    /\ response' = "failure"
    /\ idx' = idx + 1
    /\ pc' = IF idx + 1 > Len(Staged) THEN "done" ELSE "loop"
    /\ UNCHANGED <<upload, requests, store, session, itemLog, outbox, project_id, stolen_projects,
                   mail_pos, pre>>

\* Mutant: a unit in an unexpected stage is handed to the target project.
UnexpectedStage_Reclaims ==
    /\ InLoop
    /\ itemsU[Current].stage \notin {"a", "r", "m"}
    /\ item_id_list' = Append(item_id_list, itemsU[Current].item_id)
    /\ itemsU' = [itemsU EXCEPT ![Current] = [@ EXCEPT !.stage = "c",
                                                       !.project_id = project_id]]
    /\ idx' = idx + 1
    /\ pc' = IF idx + 1 > Len(Staged) THEN "email" ELSE "loop"
    /\ UNCHANGED <<upload, requests, rooms, itemRoom, itemProject, items, session, itemLog, outbox,
                   project_id, stolen_projects, mail_pos, response, pre>>

\* Mutant: the failure path also drops the staged list from the session.
UnexpectedStage_ClearsStaged ==
    /\ InLoop
    /\ itemsU[Current].stage \notin {"a", "r", "m"}
    /\ item_id_list' = Append(item_id_list, itemsU[Current].item_id)
    /\ session' = [k \in (DOMAIN session) \ {SessionKey} |-> session[k]]
    /\ response' = "failure"
    /\ pc' = "done"
    /\ UNCHANGED <<upload, requests, store, itemLog, outbox, project_id, idx, stolen_projects,
                   mail_pos, pre>>

\* Lines 159-165: any other stage returns the failure response at once.
UnexpectedStage ==
    /\ InLoop
    /\ itemsU[Current].stage \notin {"a", "r", "m"}
    /\ item_id_list' = Append(item_id_list, itemsU[Current].item_id)
    /\ response' = "failure"
    /\ pc' = "done"
    /\ UNCHANGED <<upload, requests, store, session, itemLog, outbox, project_id, idx, stolen_projects,
                   mail_pos, pre>>

\* Lines 180-216: the email loop, one email.send() per stolen project and item entry.
MailPending == pc = "email" /\ mail_pos[1] <= Len(stolen_projects)

\* Mutant: one email per stolen project, sent for its first item entry only.
NextMailPos_PerProject == <<mail_pos[1] + 1, 1>>

NextMailPos ==
    IF mail_pos[2] < Len(stolen_projects[mail_pos[1]].items)
    THEN <<mail_pos[1], mail_pos[2] + 1>>
    ELSE <<mail_pos[1] + 1, 1>>

SendEmail ==
    /\ MailPending
    /\ LET project == stolen_projects[mail_pos[1]]
           item_dict == project.items[mail_pos[2]]
       IN outbox' = Append(outbox, [project_id |-> project.project_id,
                                    new_project |-> project_id,
                                    sku |-> item_dict.sku_num,
                                    adjusted_quantity |-> item_dict.quantity])
    /\ mail_pos' = NextMailPos
    /\ UNCHANGED <<upload, requests, store, session, itemLog, pc, project_id, idx, item_id_list,
                   stolen_projects, response, pre>>

\* email.send() raises: nothing catches it, the view ends with a server error.
SendEmailFails ==
    /\ MailPending
    /\ response' = "error"
    /\ pc' = "done"
    /\ UNCHANGED <<upload, requests, store, session, itemLog, outbox, project_id, idx, item_id_list,
                   stolen_projects, mail_pos, pre>>

\* update_item_quantities(item_id, project_id): total_quantity from the item's
\* current available_quantity + reserved_quantity.
update_item_quantities(its, item_id) ==
    [its EXCEPT ![item_id].total_quantity =
                   its[item_id].available_quantity + its[item_id].reserved_quantity]

RECURSIVE RecalcAll(_, _)
RecalcAll(its, ids) ==
    IF ids = <<>> THEN its
    ELSE RecalcAll(update_item_quantities(its, Head(ids)), Tail(ids))

\* Lines 218-223: recalc the touched items, then drop the staged list from the session.
RecalcItems ==
    /\ pc = "email"
    /\ ~MailPending
    /\ items' = RecalcAll(items, item_id_list)
    /\ session' = DelKey(session, SessionKey)
    /\ pc' = "cleanup"
    /\ UNCHANGED <<upload, requests, itemsU, rooms, itemRoom, itemProject, itemLog, outbox, project_id,
                   idx, item_id_list, stolen_projects, mail_pos, response, pre>>

\* Lines 225-233: drop the misc container, sweep all_reserved < 1, answer success.
Finish ==
    /\ pc = "cleanup"
    /\ session' = DelKey(session, MiscKey)
    /\ itemRoom' = DeleteUnreservedRows(itemRoom)
    /\ response' = "success"
    /\ pc' = "done"
    /\ UNCHANGED <<upload, requests, itemsU, rooms, itemProject, items, itemLog, outbox, project_id, idx,
                   item_id_list, stolen_projects, mail_pos, pre>>

Next ==
    \/ Begin
    \/ CheckoutAvailable
    \/ CheckoutStolen
    \/ CheckoutMoving
    \/ CheckoutOwnReserved
    \/ UnexpectedStage
    \/ SendEmail
    \/ SendEmailFails
    \/ RecalcItems
    \/ Finish

Spec == Init /\ [][Next]_vars

\* ------------------------------------------------------------------ properties
\* ItemProject.reserved_quantity of (item, project); no row reads as 0.
ReservedQuantity(ip, item, proj) ==
    IF \E r \in ip : r.item_id = item /\ r.project_id = proj
    THEN (CHOOSE r \in ip : r.item_id = item /\ r.project_id = proj).reserved_quantity
    ELSE 0

LedgerConsistent(ip, ir) ==
    \A i \in ItemIds, q \in ProjectIds :
        ReservedQuantity(ip, i, q) = SumQty(RoomsOf(ir, i, q))

\* The request found a staged list.
HadStaged == SessionKey \in DOMAIN pre.session

PreStaged == pre.session[SessionKey]

CheckedOutHere(u) == itemsU[u].stage = "c" /\ itemsU[u].project_id = project_id

\* Positions of the staged list whose unit was reserved by another project.
StolenPositions(upto) ==
    {j \in 1..upto : /\ pre.itemsU[PreStaged[j]].stage = "r"
                     /\ pre.itemsU[PreStaged[j]].project_id # project_id}

\* C1: after every confirm_checkout run that started from a ledger where the
\* equality holds, ItemProject.reserved_quantity of every (item, project) equals
\* the sum of item_quantity over the ItemRoom rows of the item in the project's rooms.
C1_ReservedEqualsRoomSum ==
    (pc = "done" /\ response \in {"success", "failure"}
        /\ LedgerConsistent(pre.itemProject, pre.itemRoom))
    => LedgerConsistent(itemProject, itemRoom)

\* A batch that is exactly one unit, reserved by another project than the target.
SingleSteal ==
    /\ HadStaged
    /\ Len(PreStaged) = 1
    /\ pre.itemsU[PreStaged[1]].stage = "r"
    /\ pre.itemsU[PreStaged[1]].project_id # project_id

StealOutcome(u) ==
    LET X == pre.itemsU[u].item_id
        Q == pre.itemsU[u].project_id
    IN /\ ReservedQuantity(itemProject, X, Q) = ReservedQuantity(pre.itemProject, X, Q) - 1
       /\ ReservedQuantity(itemProject, X, project_id)
            = ReservedQuantity(pre.itemProject, X, project_id) + 1
       /\ Cardinality({k \in 1..Len(stolen_projects) : stolen_projects[k].project_id = Q}) = 1
       /\ \A k \in 1..Len(stolen_projects) :
            stolen_projects[k].project_id = Q
            => stolen_projects[k].items = <<[sku_num |-> sku_num(X), quantity |-> 1]>>
       /\ CheckedOutHere(u)

\* C2 as stated: a single cross-project steal lowers the losing project's
\* reserved_quantity by one, raises the claiming project's by one, records exactly
\* one event for the losing project with quantity 1, and checks the unit out.
C2_StealAsStated ==
    (response = "success" /\ SingleSteal) => StealOutcome(PreStaged[1])

\* C2 (amended): the same outcome, for a steal that starts from a ledger where the
\* ItemProject rows equal their ItemRoom sums and the losing project holds an
\* ItemRoom row of the item.
C2_StealWithRow ==
    (/\ response = "success"
     /\ SingleSteal
     /\ LedgerConsistent(pre.itemProject, pre.itemRoom)
     /\ RoomsOf(pre.itemRoom, pre.itemsU[PreStaged[1]].item_id,
                pre.itemsU[PreStaged[1]].project_id) # {})
    => StealOutcome(PreStaged[1])

C2_Witness ==
    /\ response = "success"
    /\ SingleSteal
    /\ RoomsOf(pre.itemRoom, pre.itemsU[PreStaged[1]].item_id,
               pre.itemsU[PreStaged[1]].project_id) # {}
    /\ StealOutcome(PreStaged[1])

\* Staged positions before the one the loop is at.
Earlier == 1..(idx - 1)

StagedLater == {j \in idx..Len(Staged) : \A e \in Earlier : Staged[e] # Staged[j]}

\* The unit went through a branch that places it in the target's Unassigned room.
WasPlaced(u) ==
    ~(pre.itemsU[u].stage = "r" /\ pre.itemsU[u].project_id = project_id)

QtyOf(ir, item, room) ==
    IF HasRow(ir, item, room) THEN GetRow(ir, item, room).item_quantity ELSE 0

\* C3 as stated (read for the units that are staged once): when the k-th unit is
\* found in an unexpected stage, the run fails there, units 1..k-1 are checked out
\* to the target, and the k-th unit and every unit after it have the stage and
\* project_id they had before the request.
C3_LaterUnitsUntouched ==
    response = "failure"
    => /\ \A j \in Earlier : CheckedOutHere(Staged[j])
       /\ \A j \in StagedLater : itemsU[Staged[j]] = pre.itemsU[Staged[j]]

\* C3 (amended): the run fails at the k-th unit and stops; units 1..k-1 are checked
\* out to the target and their Unassigned rows keep the units placed there; a unit
\* at position k or later that is not also staged earlier has the stage and
\* project_id it had before the request, except that an available one may have
\* become the moving placeholder (project_id null) of an earlier unit of its item.
C3_HaltsAtUnit ==
    response = "failure"
    => /\ pc = "done"
       /\ idx <= Len(Staged)
       /\ itemsU[Staged[idx]].stage \notin {"a", "r", "m"}
       /\ Len(item_id_list) = idx
       /\ \A j \in Earlier : CheckedOutHere(Staged[j])
       /\ \A i \in ItemIds :
            QtyOf(itemRoom, i, Unassigned(project_id))
              = QtyOf(pre.itemRoom, i, Unassigned(project_id))
                + Cardinality({j \in Earlier : /\ itemsU[Staged[j]].item_id = i
                                               /\ WasPlaced(Staged[j])})
       /\ \A j \in StagedLater :
            \/ itemsU[Staged[j]] = pre.itemsU[Staged[j]]
            \/ /\ pre.itemsU[Staged[j]].stage = "a"
               /\ itemsU[Staged[j]].stage = "m"
               /\ itemsU[Staged[j]].project_id = None
               /\ \E e \in Earlier :
                    itemsU[Staged[e]].item_id = itemsU[Staged[j]].item_id

\* A batch of three whose second unit fails after the first was committed, the
\* third having been promoted meanwhile.
C3_Witness ==
    /\ response = "failure"
    /\ Len(Staged) = 3
    /\ idx = 2
    /\ CheckedOutHere(Staged[1])
    /\ 3 \in StagedLater
    /\ pre.itemsU[Staged[3]].stage = "a"
    /\ itemsU[Staged[3]].stage = "m"

\* A step of the per-unit loop on a unit reserved by the target project itself.
OwnReservedStep ==
    /\ InLoop
    /\ itemsU[Current].stage = "r"
    /\ itemsU[Current].project_id = project_id
    /\ idx' = idx + 1

\* C4 as stated: checking out a unit reserved by the target project applies the
\* ledger update of the available case (Unassigned row +1 or created at 1,
\* ItemProject recomputed), decrements no row and records no stolen reservation.
C4_OwnReservedAsAvailable ==
    [][OwnReservedStep =>
         /\ itemRoom' = PlaceInUnassigned(itemRoom, itemProject,
                                          itemsU[Current].item_id).itemRoom
         /\ itemProject' = PlaceInUnassigned(itemRoom, itemProject,
                                             itemsU[Current].item_id).itemProject
         /\ stolen_projects' = stolen_projects]_vars

\* C4 (amended): checking out a unit reserved by the target project changes no
\* ItemRoom row and no ItemProject row and records no stolen reservation; the unit
\* alone changes, to checked_out for the target project.
C4_OwnReservedLeavesLedger ==
    [][OwnReservedStep =>
         /\ itemRoom' = itemRoom
         /\ itemProject' = itemProject
         /\ rooms' = rooms
         /\ stolen_projects' = stolen_projects
         /\ itemsU'[Current].stage = "c"
         /\ itemsU'[Current].project_id = project_id
         /\ \A v \in UnitIds \ {Current} : itemsU'[v] = itemsU[v]]_vars

\* A run that has checked out a unit reserved by its own target project.
C4_Witness ==
    /\ response = "success"
    /\ HadStaged
    /\ \E j \in 1..Len(PreStaged) :
         /\ pre.itemsU[PreStaged[j]].stage = "r"
         /\ pre.itemsU[PreStaged[j]].project_id = project_id
         /\ CheckedOutHere(PreStaged[j])

\* A step of the per-unit loop on a unit in the move stage.
MovingStep ==
    /\ InLoop
    /\ itemsU[Current].stage = "m"
    /\ idx' = idx + 1

\* C5: checking out a moving unit has the ledger effect of checking out an
\* available unit of the item from the same ledger: the same Unassigned row of
\* the target and the same ItemProject.reserved_quantity of (item, target).
C5_MovingAsAvailable ==
    [][MovingStep =>
         LET item == itemsU[Current].item_id
             placed == PlaceInUnassigned(itemRoom, itemProject, item)
         IN /\ HasRow(itemRoom', item, Unassigned(project_id))
            /\ GetRow(itemRoom', item, Unassigned(project_id))
                 = GetRow(placed.itemRoom, item, Unassigned(project_id))
            /\ ReservedQuantity(itemProject', item, project_id)
                 = ReservedQuantity(placed.itemProject, item, project_id)]_vars

\* C6: checking out a moving unit promotes exactly one other available unit of the
\* item to moving with project_id null when there is one, changes no unit besides
\* that one and the departing one, promotes none when there is none, and checks
\* the departing unit out either way.
C6_PromotesOnePlaceholder ==
    [][MovingStep =>
         LET u == Current
             avail == {v \in UnitIds \ {u} : /\ itemsU[v].item_id = itemsU[u].item_id
                                             /\ itemsU[v].stage = "a"}
         IN /\ itemsU'[u].stage = "c"
            /\ itemsU'[u].project_id = project_id
            /\ IF avail = {}
               THEN \A w \in UnitIds \ {u} : itemsU'[w] = itemsU[w]
               ELSE \E v \in avail :
                      /\ itemsU'[v].stage = "m"
                      /\ itemsU'[v].project_id = None
                      /\ itemsU'[v].item_id = itemsU[v].item_id
                      /\ \A w \in UnitIds \ {u, v} : itemsU'[w] = itemsU[w]]_vars

\* A moving unit has been checked out while two units of its item were
\* available: one has been promoted, the other is still available.
C6_Witness ==
    \E u, v, w \in UnitIds :
        /\ v # w
        /\ HadStaged /\ PreStaged = <<u>>
        /\ pre.itemsU[u].stage = "m"
        /\ CheckedOutHere(u)
        /\ pre.itemsU[v].item_id = pre.itemsU[u].item_id
        /\ pre.itemsU[w].item_id = pre.itemsU[u].item_id
        /\ pre.itemsU[v].stage = "a"
        /\ pre.itemsU[w].stage = "a"
        /\ itemsU[v].stage = "m"
        /\ itemsU[v].project_id = None
        /\ itemsU[w].stage = "a"

\* The projects that lost a reservation in the batch, and the (project, sku)
\* pairs lost, from the stages the request found.
LosingProjects ==
    {pre.itemsU[PreStaged[j]].project_id : j \in StolenPositions(Len(PreStaged))}

LostPairs ==
    {<<pre.itemsU[PreStaged[j]].project_id, sku_num(pre.itemsU[PreStaged[j]].item_id)>> :
       j \in StolenPositions(Len(PreStaged))}

MailsTo(q) == {k \in 1..Len(outbox) : outbox[k].project_id = q}

EntriesOf(q) == {k \in 1..Len(stolen_projects) : stolen_projects[k].project_id = q}

\* Units of the sku reserved by q and claimed by the target, among the processed ones.
StolenCount(q, sku) ==
    Cardinality({j \in StolenPositions(idx - 1) :
                   /\ pre.itemsU[PreStaged[j]].project_id = q
                   /\ sku_num(pre.itemsU[PreStaged[j]].item_id) = sku})

\* C8: the stolen-reservation record holds at most one entry per losing project
\* and in it at most one entry per sku, whose quantity is the number of units of
\* that sku processed so far that were reserved by that project and claimed by
\* another; at the end of the loop that is the count over the whole batch.
C8_StolenRecordAccumulates ==
    (HadStaged /\ pc \in {"loop", "email", "cleanup"})
    => /\ \A q \in ProjectIds :
            Cardinality(EntriesOf(q)) = IF \E i \in ItemIds : StolenCount(q, sku_num(i)) > 0
                                        THEN 1 ELSE 0
       /\ \A k \in 1..Len(stolen_projects) :
            LET its == stolen_projects[k].items
                q == stolen_projects[k].project_id
            IN /\ \A a, b \in 1..Len(its) : its[a].sku_num = its[b].sku_num => a = b
               /\ \A a \in 1..Len(its) : its[a].quantity = StolenCount(q, its[a].sku_num)
               /\ \A i \in ItemIds :
                    StolenCount(q, sku_num(i)) > 0
                    => \E a \in 1..Len(its) : its[a].sku_num = sku_num(i)

\* The loop has ended with two units of one sku stolen from one project.
C8_Witness ==
    /\ pc = "email"
    /\ HadStaged
    /\ idx > Len(PreStaged)
    /\ \E k \in 1..Len(stolen_projects) :
         \E a \in 1..Len(stolen_projects[k].items) :
            stolen_projects[k].items[a].quantity = 2

\* C9: after a success response every unit whose id was staged is checked_out
\* for the target project and the staged list is no longer in the session.
C9_SuccessChecksOutAll ==
    response = "success"
    => /\ SessionKey \notin DOMAIN session
       /\ HadStaged => \A j \in 1..Len(PreStaged) : CheckedOutHere(PreStaged[j])

\* A batch of at least two units has been confirmed.
C9_Witness ==
    /\ response = "success"
    /\ HadStaged
    /\ Len(PreStaged) >= 2
    /\ \A j \in 1..Len(PreStaged) : CheckedOutHere(PreStaged[j])

\* C10: after the fatal unexpected-stage failure the staged list in the session
\* is the list the request found, same ids in the same order.
C10_FailureKeepsStaged ==
    response = "failure"
    => /\ SessionKey \in DOMAIN session
       /\ HadStaged
       /\ session[SessionKey] = PreStaged

\* A batch failed after committing a unit and the list is still staged.
C10_Witness ==
    /\ response = "failure"
    /\ idx > 1
    /\ SessionKey \in DOMAIN session
    /\ Len(session[SessionKey]) = 3

\* ------------------------------------------------------------------ retry after the fatal failure
\* The offending unit's stage is corrected out of band to available, reserved or
\* moving; nothing else of the store is touched.
FixOffendingUnit ==
    /\ pc = "done"
    /\ response = "failure"
    /\ pre.run <= MaxRetries
    /\ \E fixed \in {st \in UnitStates(itemsU[Current].item_id) : st.stage \in {"a", "r", "m"}} :
         itemsU' = [itemsU EXCEPT ![Current] = fixed]
    /\ pc' = "fixed"
    /\ UNCHANGED <<upload, requests, rooms, itemRoom, itemProject, items, session, itemLog, outbox,
                   project_id, idx, item_id_list, stolen_projects, mail_pos, response, pre>>

\* Lines 10-20 again: the same project is re-submitted with the staged list the
\* failed request left in the session.
Retry ==
    /\ pc = "fixed"
    /\ pc' = "loop"
    /\ idx' = 1
    /\ item_id_list' = <<>>
    /\ stolen_projects' = <<>>
    /\ mail_pos' = <<1, 1>>
    /\ response' = "none"
    /\ pre' = [itemsU |-> itemsU, itemRoom |-> itemRoom, itemProject |-> itemProject,
               session |-> session, run |-> pre.run + 1, failed_at |-> idx, first |-> pre]
    /\ UNCHANGED <<upload, requests, store, session, itemLog, outbox, project_id>>

NextRetry == Next \/ FixOffendingUnit \/ Retry

\* The retry scenario starts from the exact ledger with a staged list in the session.
InitRetry ==
    /\ Init
    /\ DOMAIN session = {SessionKey}
    /\ itemRoom = InitItemRoom(itemsU, "exact")

SpecRetry == InitRetry /\ [][NextRetry]_vars

\* The failed request met exactly one problem: its list stages no unit twice and
\* every unit but the k-th was available, reserved or moving when it began.
OnlyUnitKWasWrong ==
    /\ \A a, b \in 1..Len(PreStaged) : PreStaged[a] = PreStaged[b] => a = b
    /\ \A j \in 1..Len(PreStaged) :
         j # pre.failed_at => pre.first.itemsU[PreStaged[j]].stage \in {"a", "r", "m"}

\* C11: after the fatal failure at unit k and the out-of-band correction of unit
\* k alone, re-running confirm_checkout with the retained staged list for the same
\* project returns success and leaves every staged unit checked_out for it.
C11_RetrySucceeds ==
    (pre.run = 2 /\ pc = "done" /\ response \in {"success", "failure"} /\ OnlyUnitKWasWrong)
    => /\ response = "success"
       /\ \A j \in 1..Len(PreStaged) : CheckedOutHere(PreStaged[j])

\* ------------------------------------------------------------------ a second request
\* The first request checks out available units of one item into a project that
\* has no Unassigned row of the item yet.
InitSequel ==
    /\ Init
    /\ DOMAIN session = {SessionKey}
    /\ itemRoom = InitItemRoom(itemsU, "exact")
    /\ Len(Staged) >= 1
    /\ \A a, b \in 1..Len(Staged) : Staged[a] = Staged[b] => a = b
    /\ \A j \in 1..Len(Staged) :
         /\ itemsU[Staged[j]].stage = "a"
         /\ itemsU[Staged[j]].item_id = itemsU[Staged[1]].item_id
    /\ \A u \in UnitIds :
         itemsU[u].stage = "c" => itemsU[u].item_id # itemsU[Staged[1]].item_id

\* Between the requests, out of band: the units the first request checked out are
\* reserved again for the same project (they stay counted in its rooms), and a
\* new list is staged.
Sequel ==
    /\ pc = "done"
    /\ response = "success"
    /\ pre.run = 1
    /\ Len(PreStaged) >= 1
    /\ itemsU' = [u \in UnitIds |->
                    IF \E j \in 1..Len(PreStaged) : PreStaged[j] = u
                    THEN [itemsU[u] EXCEPT !.stage = "r"]
                    ELSE itemsU[u]]
    /\ \E l \in StagedLists :
         /\ Len(l) >= 1
         /\ session' = [k \in {SessionKey} |-> l]
         /\ pre' = [itemsU |-> itemsU', itemRoom |-> itemRoom, itemProject |-> itemProject,
                    session |-> session', run |-> 2, first |-> pre,
                    first_project |-> project_id]
    /\ pc' = "start"
    /\ idx' = 1
    /\ item_id_list' = <<>>
    /\ stolen_projects' = <<>>
    /\ mail_pos' = <<1, 1>>
    /\ response' = "none"
    /\ UNCHANGED <<upload, requests, rooms, itemRoom, itemProject, items, itemLog, outbox, project_id>>

NextSequel == Next \/ Sequel

SpecSequel == InitSequel /\ [][NextSequel]_vars

\* The item and the number of units of the first request.
FirstItem == pre.first.itemsU[pre.first.session[SessionKey][1]].item_id

FirstCount == Len(pre.first.session[SessionKey])

\* Units of the first request that the second has stolen so far.
StolenBack ==
    Cardinality({j \in 1..(idx - 1) :
                   \E e \in 1..FirstCount : pre.first.session[SessionKey][e] = PreStaged[j]})

SymmetryHolds ==
    /\ QtyOf(pre.itemRoom, FirstItem, Unassigned(pre.first_project)) = FirstCount
    /\ (pc \in {"loop", "email", "cleanup", "done"} /\ project_id # pre.first_project)
       => /\ QtyOf(itemRoom, FirstItem, Unassigned(pre.first_project))
               = FirstCount - StolenBack
          /\ HasRow(itemRoom, FirstItem, Unassigned(pre.first_project))
               <=> FirstCount - StolenBack > 0

\* C12: with no row for (item, Unassigned of P) at first, checking out
\* N available units of the item into P leaves the row at item_quantity N, each
\* later steal of one of those units out of P lowers it by 1, and the row is
\* absent, never 0, once the quantity is back at 0.
C12_CreateDeleteSymmetry ==
    (pre.run = 2 /\ response # "error") => SymmetryHolds

\* ------------------------------------------------------------------ a store with history
\* The request meets a ledger and item totals left behind by earlier requests.
InitLegacy ==
    /\ InitRequest(LegacyShapes, {"fresh", "stale"})
    /\ DOMAIN session = {SessionKey}

SpecLegacy == InitLegacy /\ [][Next]_vars

\* C13: after confirm_checkout returns success no ItemRoom row in the store has
\* all_reserved < 1, whatever its item_quantity and whether or not the batch
\* touched it.
C13_NoUnreservedRowAfterSuccess ==
    (pc = "done" /\ response = "success")
    => \A r \in itemRoom : r.all_reserved >= 1

\* A success after which a row the request found with all_reserved 0 and a
\* positive item_quantity, of an item no staged unit belongs to, is gone.
C13_Witness ==
    /\ pc = "done"
    /\ response = "success"
    /\ Len(PreStaged) >= 1
    /\ \E r \in pre.itemRoom :
         /\ r.all_reserved < 1
         /\ r.item_quantity >= 1
         /\ \A j \in 1..Len(PreStaged) : itemsU[PreStaged[j]].item_id # r.item_id
         /\ ~HasRow(itemRoom, r.item_id, r.room_id)

\* C14: after a confirm_checkout run that returns success or the fatal failure,
\* every Item the batch touched has total_quantity = available_quantity +
\* reserved_quantity.
C14_TouchedTotalsConsistent ==
    (pc = "done" /\ response \in {"success", "failure"})
    => \A j \in 1..Len(item_id_list) :
         items[item_id_list[j]].total_quantity
           = items[item_id_list[j]].available_quantity
             + items[item_id_list[j]].reserved_quantity

\* ================================================================== add_inventory
MaxRows == 2

\* An Inventory Id: a name written plainly, in upper case, or with blanks around it.
Forms == {"plain", "upper", "padded"}

Id(name, form) == [name |-> name, form |-> form]

\* str.strip()
strip(id) == IF id.form = "padded" THEN Id(id.name, "plain") ELSE id

\* str.lower()
lower(id) == IF id.form = "upper" THEN Id(id.name, "plain") ELSE id

\* Mutant: the duplicate check trims but does not lower-case.
normalized_TrimsOnly(id) == strip(id)

\* Line 83: df["Inventory Id"].str.lower().str.strip()
normalized(id) == strip(lower(id))

\* Items.studio_id of item i.
studio_id(i) == Id(200 + i, "plain")

\* Identifiers a sheet can hold: those of the items in any form, and one the
\* store does not know.
SheetIds ==
    {Id(200 + i, f) : i \in ItemIds, f \in Forms} \cup {Id(200 + NItems + 1, "plain")}

\* A sheet row: Inventory Id, Quantity Ordered, Quantity Available, Description.
SheetRows ==
    {[id |-> id, ordered |-> 1, available |-> e, description |-> d] :
       id \in SheetIds, e \in {0, 2}, d \in {"old", "new"}}
    \cup {[id |-> id, ordered |-> 0, available |-> 0, description |-> "old"] :
            id \in SheetIds}

Sheets == UNION {[1..n -> SheetRows] : n \in 0..MaxRows}

\* Line 235: str(random.randint(10_000_000, 99_999_999)); the draws told apart are
\* the sku_num of item 1, the digits of item 1's studio_id, and two unused numbers.
SkuDraws == {sku_num(1), 200 + 1, 300 + 1, 300 + 2}

\* The Items table as add_inventory finds it.
\*   "synced"  totals and high-water mark agree with the counts;
\*   "stale"   the counts dropped by one since the totals were written;
\*   "behind"  the counts rose by one since the totals were written.
Rollups == {"synced", "stale", "behind"}

UploadItems(us, t) ==
    [i \in ItemIds |->
       LET q == InitItems(us)[i]
           n == q.available_quantity + q.reserved_quantity
           tot == CASE t = "synced" -> n
                    [] t = "stale" -> n + 1
                    [] OTHER -> IF n > 0 THEN n - 1 ELSE 0
       IN [studio_id |-> studio_id(i), description |-> "old",
           available_quantity |-> q.available_quantity,
           reserved_quantity |-> q.reserved_quantity,
           total_quantity |-> tot, previous_total_quantity |-> tot]]

\* A bundle an earlier upload left in the session.
OldBundle ==
    [present |-> TRUE, new_items |-> {}, items_to_change |-> {},
     items_to_delete |-> <<sku_num(1)>>, items_to_subtract |-> {}]

InitUpload ==
    /\ itemsU \in {us \in InitItemsU :
                     \A u \in UnitIds : /\ us[u].stage \in {"a", "r"}
                                        /\ us[u].project_id \in {None, 1}}
    /\ \E t \in Rollups : items = UploadItems(itemsU, t)
    /\ \E b \in {NoBundle, OldBundle} :
         upload = [UploadIdle EXCEPT !.session = b,
                                     !.pre = [items |-> items, session |-> b]]
    /\ rooms = {}
    /\ itemRoom = {}
    /\ itemProject = {}
    /\ session = [k \in {} |-> <<>>]
    /\ itemLog = {}
    /\ outbox = <<>>
    /\ pc = "none"
    /\ project_id = None
    /\ idx = 1
    /\ item_id_list = <<>>
    /\ stolen_projects = <<>>
    /\ mail_pos = <<1, 1>>
    /\ response = "none"
    /\ pre = [itemsU |-> itemsU, itemRoom |-> itemRoom,
              itemProject |-> itemProject, session |-> session, run |-> 1]
    /\ requests = NoRequests

checkout == <<itemsU, rooms, itemRoom, itemProject, session, itemLog, outbox, pc,
              project_id, idx, item_id_list, stolen_projects, mail_pos, response, pre,
              requests>>

\* Mutant: the synchronisation sets previous_total_quantity to the total outright.
SyncRollups_ResetsMark ==
    /\ upload.pc = "idle"
    /\ items' = [i \in ItemIds |->
                   LET tot == items[i].available_quantity + items[i].reserved_quantity
                   IN [items[i] EXCEPT !.total_quantity = tot,
                                       !.previous_total_quantity = tot]]
    /\ upload' = [upload EXCEPT !.pc = "check"]
    /\ UNCHANGED checkout

\* Lines 13-17: total_quantity from the counts; previous_total_quantity raised
\* to it where it is lower.
SyncRollups ==
    /\ upload.pc = "idle"
    /\ items' = [i \in ItemIds |->
                   LET tot == items[i].available_quantity + items[i].reserved_quantity
                   IN [items[i] EXCEPT
                         !.total_quantity = tot,
                         !.previous_total_quantity = IF @ < tot THEN tot ELSE @]]
    /\ upload' = [upload EXCEPT !.pc = "check"]
    /\ UNCHANGED checkout

\* Mutant: a failure return drops the staged sets from the session.
Answer_DropsBundle(up, resp, ids) ==
    [up EXCEPT !.pc = "done", !.response = resp, !.named = ids, !.session = NoBundle]

\* return JsonResponse({"success": False, "message": ...})
Answer(up, resp, ids) ==
    [up EXCEPT !.pc = "done", !.response = resp, !.named = ids]

\* Lines 19-48: not a POST with a file, a completed project with checked-out
\* items outstanding, or manual quantity changes pending.
RejectRequest ==
    /\ upload.pc = "check"
    /\ \E why \in {"invalid", "pending_sync", "pending_manual"} :
         upload' = Answer(upload, why, {})
    /\ UNCHANGED <<items, checkout>>

\* Line 84: the rows whose normalised Inventory Id occurs more than once.
dupes(sheet) ==
    {a \in 1..Len(sheet) :
       \E b \in 1..Len(sheet) : b # a /\ normalized(sheet[b].id) = normalized(sheet[a].id)}

\* Line 100: df[df["Quantity Ordered"] > 0]
Ordered(sheet) == SelectSeq(sheet, LAMBDA r : r.ordered > 0)

\* Lines 50-100: read the sheet; duplicates end the request, else the rows
\* with a positive Quantity Ordered are kept.
ReadWorkbook ==
    /\ upload.pc = "check"
    /\ \E sheet \in Sheets :
         upload' =
           IF dupes(sheet) # {}
           THEN Answer([upload EXCEPT !.sheet = sheet], "duplicates",
                       {sheet[a].id : a \in dupes(sheet)})
           ELSE [upload EXCEPT !.sheet = sheet, !.rows = Ordered(sheet), !.pc = "first_pass"]
    /\ UNCHANGED <<items, checkout>>
\* Mutant: every item counts as missing from the sheet.
Absent_Always(rows, sid) == TRUE

\* Line 116: studio_id not in df["Inventory Id"].str.strip().unique().tolist()
Absent(rows, sid) == \A k \in 1..Len(rows) : strip(rows[k].id) # sid

\* Mutant: the reserved unit is never found.
HasReserved_Never(us, i) == FALSE

\* Line 121: ItemsU.objects.filter(item_id=item.item_id, stage="r").first()
HasReserved(us, i) == \E u \in UnitIds : us[u].item_id = i /\ us[u].stage = "r"

\* Lines 109-111: values_list("studio_id").distinct() carries no ordering.
Orders == {o \in [1..NItems -> ItemIds] : \A a, b \in 1..NItems : o[a] = o[b] => a = b}

\* Lines 115-132 from position k of the studio_ids: the identifier of the first
\* missing item that has a reserved unit, or the skus to delete.
RECURSIVE FirstPassFrom(_, _, _, _, _, _)
FirstPassFrom(order, k, its, us, rows, dels) ==
    IF k > Len(order) THEN [conflict |-> {}, items_to_delete |-> dels]
    ELSE LET i == order[k]
             total_quantity == its[i].available_quantity + its[i].reserved_quantity
         IN IF Absent(rows, its[i].studio_id) /\ total_quantity > 0
            THEN IF HasReserved(us, i)
                 THEN [conflict |-> {its[i].studio_id}, items_to_delete |-> dels]
                 ELSE FirstPassFrom(order, k + 1, its, us, rows, Append(dels, sku_num(i)))
            ELSE FirstPassFrom(order, k + 1, its, us, rows, dels)

\* Lines 102-132: the empty buckets and the first pass over the studio_ids.
FirstPass ==
    /\ upload.pc = "first_pass"
    /\ \E order \in Orders :
         LET res == FirstPassFrom(order, 1, items, itemsU, upload.rows, <<>>)
         IN upload' =
              IF res.conflict # {}
              THEN Answer(upload, "conflict", res.conflict)
              ELSE [upload EXCEPT !.items_to_delete = res.items_to_delete,
                                  !.pos = 1, !.pc = "rows"]
    /\ UNCHANGED <<items, checkout>>

\* dict[sku] = entry
Put(d, entry) == {x \in d : x.sku # entry.sku} \cup {entry}

\* Lines 156-158: Items.objects.filter(studio_id=str(row["Inventory Id"]).strip())
Match(its, id) == {i \in ItemIds : its[i].studio_id = strip(id)}

\* Mutant: the label count is taken against total_quantity, not the high-water mark.
ExistingItemRow_LabelsFromTotal ==
    /\ upload.pc = "rows"
    /\ upload.pos <= Len(upload.rows)
    /\ Match(items, upload.rows[upload.pos].id) # {}
    /\ LET row == upload.rows[upload.pos]
           i == CHOOSE x \in Match(items, row.id) : \A y \in Match(items, row.id) : x <= y
           fixed == items[i].available_quantity + items[i].reserved_quantity
           studio_available == row.available
           previous == fixed
       IN /\ items' = [items EXCEPT ![i].total_quantity = fixed]
          /\ upload' =
               [upload EXCEPT
                  !.pos = @ + 1,
                  !.items_to_change =
                     IF items[i].description # row.description
                     THEN Put(@, [sku |-> sku_num(i), description |-> row.description])
                     ELSE @,
                  !.labels =
                     IF studio_available > previous
                     THEN Append(@, [sku |-> sku_num(i), count |-> studio_available - previous])
                     ELSE @,
                  !.items_to_subtract =
                     IF ~(studio_available > previous) /\ studio_available < fixed
                     THEN Put(@, [sku |-> sku_num(i), quantity |-> fixed - studio_available])
                     ELSE @]
    /\ UNCHANGED checkout

\* Lines 160-225: a row of an item the store holds.
ExistingItemRow ==
    /\ upload.pc = "rows"
    /\ upload.pos <= Len(upload.rows)
    /\ Match(items, upload.rows[upload.pos].id) # {}
    /\ LET row == upload.rows[upload.pos]
           i == CHOOSE x \in Match(items, row.id) : \A y \in Match(items, row.id) : x <= y
           fixed == items[i].available_quantity + items[i].reserved_quantity
           studio_available == row.available
           previous == items[i].previous_total_quantity
       IN /\ items' = [items EXCEPT ![i].total_quantity = fixed]
          /\ upload' =
               [upload EXCEPT
                  !.pos = @ + 1,
                  !.items_to_change =
                     IF items[i].description # row.description
                     THEN Put(@, [sku |-> sku_num(i), description |-> row.description])
                     ELSE @,
                  !.labels =
                     IF studio_available > previous
                     THEN Append(@, [sku |-> sku_num(i), count |-> studio_available - previous])
                     ELSE @,
                  !.items_to_subtract =
                     IF ~(studio_available > previous) /\ studio_available < fixed
                     THEN Put(@, [sku |-> sku_num(i), quantity |-> fixed - studio_available])
                     ELSE @]
    /\ UNCHANGED checkout

\* Lines 227-273: a row of an item the store does not hold; the sku is drawn
\* until it is none of the studio_ids.
NewItemRow ==
    /\ upload.pc = "rows"
    /\ upload.pos <= Len(upload.rows)
    /\ Match(items, upload.rows[upload.pos].id) = {}
    /\ LET row == upload.rows[upload.pos]
           labels_needed == row.available
       IN \E sku \in {c \in SkuDraws : \A i \in ItemIds : items[i].studio_id # Id(c, "plain")} :
            upload' =
              [upload EXCEPT
                 !.pos = @ + 1,
                 !.labels = IF labels_needed > 0
                            THEN Append(@, [sku |-> sku, count |-> labels_needed])
                            ELSE @,
                 !.new_items =
                    Put(@, [sku |-> sku, studio_id |-> strip(row.id),
                            description |-> row.description,
                            available_quantity |-> labels_needed,
                            available_quantity_holder |-> labels_needed,
                            total_quantity |-> labels_needed,
                            total_quantity_holder |-> labels_needed,
                            previous_total_quantity |-> labels_needed,
                            previous_total_quantity_holder |-> labels_needed])]
    /\ UNCHANGED <<items, checkout>>

\* Lines 275-304: the four buckets go to the session and the request succeeds.
StageChanges ==
    /\ upload.pc = "rows"
    /\ upload.pos > Len(upload.rows)
    /\ upload' =
         [upload EXCEPT
            !.pc = "done",
            !.response = "success",
            !.changes = ~(/\ upload.new_items = {}
                          /\ upload.items_to_change = {}
                          /\ upload.items_to_delete = <<>>
                          /\ upload.items_to_subtract = {}),
            !.session = [present |-> TRUE, new_items |-> upload.new_items,
                         items_to_change |-> upload.items_to_change,
                         items_to_delete |-> upload.items_to_delete,
                         items_to_subtract |-> upload.items_to_subtract]]
    /\ UNCHANGED <<items, checkout>>

NextUpload ==
    \/ SyncRollups
    \/ RejectRequest
    \/ ReadWorkbook
    \/ FirstPass
    \/ ExistingItemRow
    \/ NewItemRow
    \/ StageChanges

SpecUpload == InitUpload /\ [][NextUpload]_vars
\* ------------------------------------------------------------------ add_inventory: properties
\* No row of the sheet carries the item's identifier.
Missing(i) == \A k \in 1..Len(upload.sheet) : strip(upload.sheet[k].id) # studio_id(i)

ReservedUnits(i) == {u \in UnitIds : itemsU[u].item_id = i /\ itemsU[u].stage = "r"}

\* The item is missing from the rows the diff keeps, has a positive total and a
\* reserved unit: the irreconcilable conflict.
InConflict(i) ==
    /\ \A k \in 1..Len(upload.rows) : strip(upload.rows[k].id) # studio_id(i)
    /\ items[i].available_quantity + items[i].reserved_quantity > 0
    /\ ReservedUnits(i) # {}

Keys(d) == {x.sku : x \in d}

Deletions(b) == {b.items_to_delete[k] : k \in 1..Len(b.items_to_delete)}

\* The request passed validation and the first pass has answered.
DiffAnswered == upload.pc = "done" /\ upload.response \in {"success", "conflict"}

AbsentItemOutcome(i) ==
    IF ReservedUnits(i) # {}
    THEN /\ upload.response = "conflict"
         /\ upload.named = {studio_id(i)}
         /\ upload.session = upload.pre.session
    ELSE /\ upload.response = "success"
         /\ sku_num(i) \in Deletions(upload.session)

\* C15 as stated, for a request that reaches the diff: an Item with
\* total_quantity > 0 whose identifier no row carries is staged for deletion by
\* a successful run when it has no reserved unit, and otherwise the run fails
\* naming that identifier and stages nothing.
C15_AbsentItemAsStated ==
    DiffAnswered
    => \A i \in ItemIds :
         (Missing(i) /\ items[i].total_quantity > 0) => AbsentItemOutcome(i)

\* C15: the same when no other Item is in irreconcilable conflict (the run
\* stops at the first conflict it meets and names only that one).
C15_AbsentItem ==
    DiffAnswered
    => \A i \in ItemIds :
         (/\ Missing(i)
          /\ items[i].total_quantity > 0
          /\ \A j \in ItemIds \ {i} : ~InConflict(j))
         => AbsentItemOutcome(i)

\* A run that failed naming a missing item with a reserved unit, while another
\* missing item without reserved units was left unstaged.
C15_Witness ==
    /\ DiffAnswered
    /\ upload.response = "conflict"
    /\ \E i, j \in ItemIds :
         /\ i # j
         /\ Missing(i) /\ Missing(j)
         /\ items[i].total_quantity > 0 /\ items[j].total_quantity > 0
         /\ ReservedUnits(i) # {} /\ ReservedUnits(j) = {}
         /\ upload.named = {studio_id(i)}

\* C16: in a successful diff every Item whose identifier no row carries is in
\* the staged deletions, an Item with total_quantity 0 included.
C16_EveryAbsentItemDeleted ==
    (upload.pc = "done" /\ upload.response = "success")
    => \A i \in ItemIds : Missing(i) => sku_num(i) \in Deletions(upload.session)

\* Rows of the sheet that share their identifier's name with another row
\* (lower-cased and trimmed, every form of a name is the same identifier).
SharedRows ==
    {a \in 1..Len(upload.sheet) :
       \E b \in 1..Len(upload.sheet) : b # a /\ upload.sheet[b].id.name = upload.sheet[a].id.name}

\* C17: a sheet with two rows sharing an identifier after normalisation ends in
\* a failure that lists the duplicated identifiers; the session keeps its staged
\* sets and no label is requested.
C17_DuplicatesRejected ==
    SharedRows # {}
    => /\ upload.pc = "done"
       /\ upload.response = "duplicates"
       /\ upload.named = {upload.sheet[a].id : a \in SharedRows}
       /\ upload.session = upload.pre.session
       /\ upload.labels = <<>>

\* Two rows differing only in case, over a session that held an older bundle.
C17_Witness ==
    /\ upload.response = "duplicates"
    /\ upload.pre.session.present
    /\ \E a, b \in 1..Len(upload.sheet) :
         /\ upload.sheet[a].id.form = "plain"
         /\ upload.sheet[b].id.form = "upper"
         /\ upload.sheet[a].id.name = upload.sheet[b].id.name
         /\ upload.sheet[a].available > 0

\* C18: whenever add_inventory has returned a failure the session holds the
\* staged sets it held before and no label was requested; a label is requested
\* only after the first pass has found no conflict.
C18_FailureStagesNothing ==
    /\ (upload.pc = "done" /\ upload.response # "success")
       => /\ upload.session = upload.pre.session
          /\ upload.labels = <<>>
    /\ upload.labels # <<>>
       => /\ upload.pc \in {"rows", "done"}
          /\ upload.response \in {"none", "success"}

\* A conflict failure over an older bundle, with a row in the sheet that would
\* have needed labels.
C18_Witness ==
    /\ upload.pc = "done"
    /\ upload.response = "conflict"
    /\ upload.pre.session.present
    /\ upload.session = upload.pre.session
    /\ \E k \in 1..Len(upload.rows) :
         /\ Match(items, upload.rows[k].id) = {}
         /\ upload.rows[k].available > 0

\* C19: when add_inventory ends with the duplicate-identifier error every Item
\* has the total_quantity and previous_total_quantity it had before the request.
C19_DuplicateErrorLeavesItems ==
    upload.response = "duplicates"
    => \A i \in ItemIds :
         /\ items[i].total_quantity = upload.pre.items[i].total_quantity
         /\ items[i].previous_total_quantity = upload.pre.items[i].previous_total_quantity

Disjoint(A, B) == A \cap B = {}

\* C20: in the bundle of a successful add_inventory the sku sets of new_items,
\* field_changes, deletions and quantity_reductions are pairwise disjoint.
C20_BundleSetsDisjoint ==
    (upload.pc = "done" /\ upload.response = "success")
    => LET b == upload.session
       IN /\ Disjoint(Keys(b.new_items), Keys(b.items_to_change))
          /\ Disjoint(Keys(b.new_items), Deletions(b))
          /\ Disjoint(Keys(b.new_items), Keys(b.items_to_subtract))
          /\ Disjoint(Keys(b.items_to_change), Deletions(b))
          /\ Disjoint(Keys(b.items_to_change), Keys(b.items_to_subtract))
          /\ Disjoint(Deletions(b), Keys(b.items_to_subtract))

\* C20 (amended): in the bundle of a successful add_inventory no sku of the
\* deletions is among the field_changes or the quantity_reductions.
C20_DeletionsApart ==
    (upload.pc = "done" /\ upload.response = "success")
    => LET b == upload.session
       IN /\ Disjoint(Keys(b.items_to_change), Deletions(b))
          /\ Disjoint(Deletions(b), Keys(b.items_to_subtract))

\* A success that stages a deletion next to a field change and a reduction.
C20_Witness ==
    /\ upload.pc = "done"
    /\ upload.response = "success"
    /\ Deletions(upload.session) # {}
    /\ Keys(upload.session.items_to_change) # {}
    /\ Keys(upload.session.items_to_subtract) # {}
\* The item a row belongs to, told by the row's trimmed identifier.
RowItem(row) == CHOOSE i \in ItemIds : studio_id(i) = strip(row.id)

IsMatched(row) == \E i \in ItemIds : studio_id(i) = strip(row.id)

Requested(e, p, t, sku) ==
    IF e > p
    THEN /\ upload'.labels = Append(upload.labels, [sku |-> sku, count |-> e - p])
         /\ upload'.items_to_subtract = upload.items_to_subtract
    ELSE IF e < t
    THEN /\ upload'.labels = upload.labels
         /\ \E x \in upload'.items_to_subtract : x.sku = sku /\ x.quantity = t - e
         /\ \A x \in upload'.items_to_subtract :
              x.sku = sku \/ x \in upload.items_to_subtract
    ELSE /\ upload'.labels = upload.labels
         /\ upload'.items_to_subtract = upload.items_to_subtract

\* C21: for a matched Item with external available count e, previous_total_quantity
\* p and total_quantity t, the row requests labels for exactly e - p units and no
\* reduction when e > p, stages the reduction t - e and no labels when otherwise
\* e < t, and neither in every other case.
C21_LabelsOrReduction ==
    [][(/\ upload.pc = "rows"
        /\ upload'.pos = upload.pos + 1
        /\ IsMatched(upload.rows[upload.pos]))
       => LET row == upload.rows[upload.pos]
              i == RowItem(row)
          IN Requested(row.available, items[i].previous_total_quantity,
                       items[i].total_quantity, sku_num(i))]_vars

\* A success in which one matched row asked for labels and another staged a
\* reduction.
C21_Witness ==
    /\ upload.pc = "done"
    /\ upload.response = "success"
    /\ \E a, b \in 1..Len(upload.rows) :
         /\ IsMatched(upload.rows[a]) /\ IsMatched(upload.rows[b])
         /\ LET i == RowItem(upload.rows[a])
                j == RowItem(upload.rows[b])
            IN /\ i # j
               /\ upload.rows[a].available > items[i].previous_total_quantity
               /\ \E k \in 1..Len(upload.labels) :
                    upload.labels[k] = [sku |-> sku_num(i),
                                        count |-> upload.rows[a].available
                                                  - items[i].previous_total_quantity]
               /\ upload.rows[b].available < items[j].total_quantity
               /\ [sku |-> sku_num(j),
                   quantity |-> items[j].total_quantity - upload.rows[b].available]
                    \in upload.session.items_to_subtract
\* The kept rows that match no Item.
UnmatchedRows == {k \in 1..Len(upload.rows) : ~IsMatched(upload.rows[k])}

StagedFor(x, row) ==
    /\ x.studio_id = strip(row.id)
    /\ x.available_quantity = row.available
    /\ x.available_quantity_holder = row.available
    /\ x.total_quantity = row.available
    /\ x.total_quantity_holder = row.available
    /\ x.previous_total_quantity = row.available
    /\ x.previous_total_quantity_holder = row.available

\* C22: in a successful diff every row that matches no Item is staged as its own
\* new_items entry: as many entries as unmatched rows, each under a generated
\* key that is no existing external identifier, each with its six quantities
\* equal to the row's available count.
C22_EveryNewRowStaged ==
    (upload.pc = "done" /\ upload.response = "success")
    => /\ Cardinality(upload.session.new_items) = Cardinality(UnmatchedRows)
       /\ Cardinality(Keys(upload.session.new_items)) = Cardinality(UnmatchedRows)
       /\ \A k \in UnmatchedRows :
            \E x \in upload.session.new_items : StagedFor(x, upload.rows[k])
       /\ \A x \in upload.session.new_items :
            \A i \in ItemIds : Id(x.sku, "plain") # studio_id(i)
\* C23: a run of confirm_checkout that got as far as the stolen-reservation
\* notifications ends, whether or not a send failed, with the touched totals
\* recomputed, the staged unit list cleared, the all_reserved sweep done and
\* the response success.
C23_NotificationFailureTolerated ==
    (pc = "done" /\ stolen_projects # <<>> /\ response # "failure")
    => /\ response = "success"
       /\ SessionKey \notin DOMAIN session
       /\ \A r \in itemRoom : r.all_reserved >= 1
       /\ \A j \in 1..Len(item_id_list) :
            items[item_id_list[j]].total_quantity
              = items[item_id_list[j]].available_quantity
                + items[item_id_list[j]].reserved_quantity
\* C24: a unit whose audit-log write failed still ends with stage checked_out
\* and the target project, and the run goes on to the next unit (or to the
\* notifications after the last one) without a failure response.
C24_LogFailureKeepsTransition ==
    [][(InLoop /\ idx' = idx + 1 /\ itemLog' = itemLog)
       => /\ itemsU'[Current].stage = "c"
          /\ itemsU'[Current].project_id = project_id
          /\ response' = "none"
          /\ pc' = IF idx < Len(Staged) THEN "loop" ELSE "email"]_vars

\* A success over two units where the first unit's log entry is missing and the
\* second one's was written.
C24_Witness ==
    /\ pc = "done"
    /\ response = "success"
    /\ HadStaged
    /\ Len(PreStaged) = 2
    /\ \A e \in itemLog : e.item_u_id # PreStaged[1]
    /\ \E e \in itemLog : e.item_u_id = PreStaged[2]
    /\ \A j \in 1..2 : /\ itemsU[PreStaged[j]].stage = "c"
                       /\ itemsU[PreStaged[j]].project_id = project_id
\* C25: within one batch no aggregate (ItemProject.reserved_quantity,
\* Items.total_quantity) is recomputed while a unit of the batch is still to be
\* processed: a step that changes an aggregate leaves no unit behind it.
C25_AggregatesAfterUnits ==
    [][(itemProject' # itemProject \/ items' # items) => pc' # "loop"]_vars
\* ------------------------------------------------------------------ a sequence of runs
\* A first request over a list of one or two units.
InitRuns ==
    /\ Init
    /\ DOMAIN session = {SessionKey}
    /\ itemRoom = InitItemRoom(itemsU, "exact")
    /\ Len(Staged) \in {1, 2}

\* After a run has answered, the staging views put a new one-unit list in the
\* session and a further request arrives.
NewRequest ==
    /\ pc = "done"
    /\ pre.run <= MaxRetries
    /\ \E u \in UnitIds : session' = [k \in {SessionKey} |-> <<u>>]
    /\ pre' = [itemsU |-> itemsU, itemRoom |-> itemRoom, itemProject |-> itemProject,
               session |-> session', run |-> pre.run + 1, first |-> pre]
    /\ pc' = "start"
    /\ idx' = 1
    /\ item_id_list' = <<>>
    /\ stolen_projects' = <<>>
    /\ mail_pos' = <<1, 1>>
    /\ response' = "none"
    /\ UNCHANGED <<upload, requests, store, itemLog, outbox, project_id>>

NextRuns == Next \/ NewRequest

SpecRuns == InitRuns /\ [][NextRuns]_vars

\* C26: over a sequence of confirm_checkout runs a unit changes stage only from
\* available, reserved or moving to checked_out as the staged unit being
\* processed, or from available to moving as the placeholder promoted for a
\* moving unit of its item; a checked_out unit never changes again, and a run
\* that meets one in its staged list answers the fatal failure.
C26_CheckedOutTerminal ==
    [][/\ \A u \in UnitIds :
            /\ itemsU[u].stage = "c" => itemsU'[u] = itemsU[u]
            /\ itemsU'[u].stage # itemsU[u].stage
               => /\ InLoop
                  /\ \/ /\ u = Current
                        /\ itemsU[u].stage \in {"a", "r", "m"}
                        /\ itemsU'[u].stage = "c"
                     \/ /\ itemsU[Current].stage = "m"
                        /\ itemsU[u].item_id = itemsU[Current].item_id
                        /\ itemsU[u].stage = "a"
                        /\ itemsU'[u].stage = "m"
       /\ (InLoop /\ itemsU[Current].stage = "c")
          => (response' = "failure" /\ pc' = "done")]_vars

\* The second run failed on a unit the first run had checked out, and the unit
\* is as the first run left it.
C26_Witness ==
    /\ pre.run = 2
    /\ pc = "done"
    /\ response = "failure"
    /\ pre.first.itemsU[Current].stage # "c"
    /\ pre.itemsU[Current].stage = "c"
    /\ itemsU[Current] = pre.itemsU[Current]
    /\ project_id # itemsU[Current].project_id
C28_CountersMoveTogether ==
    \A r \in itemRoom :
      IF HasRow(pre.itemRoom, r.item_id, r.room_id)
      THEN LET r0 == GetRow(pre.itemRoom, r.item_id, r.room_id)
           IN /\ r.item_quantity - r.all_reserved = r0.item_quantity - r0.all_reserved
              /\ r.item_quantity - r.item_quantity_holder
                   = r0.item_quantity - r0.item_quantity_holder
      ELSE /\ r.item_quantity = r.item_quantity_holder
           /\ r.item_quantity = r.all_reserved

\* A success after which a row whose counters differed was lowered by a steal
\* and still exists, and a row was created.
C28_Witness ==
    /\ pc = "done"
    /\ response = "success"
    /\ \E r \in itemRoom :
         /\ HasRow(pre.itemRoom, r.item_id, r.room_id)
         /\ LET r0 == GetRow(pre.itemRoom, r.item_id, r.room_id)
            IN /\ r0.item_quantity # r0.all_reserved
               /\ r.item_quantity < r0.item_quantity
    /\ \E r \in itemRoom : ~HasRow(pre.itemRoom, r.item_id, r.room_id)
\* The quantity the stolen-reservation record sp holds for project q and sku.
Recorded(sp, q, sku) ==
    LET hits == {<<k, m>> \in (1..Len(sp)) \X (1..MaxBatch) :
                   /\ sp[k].project_id = q
                   /\ m <= Len(sp[k].items)
                   /\ sp[k].items[m].sku_num = sku}
    IN IF hits = {} THEN 0
       ELSE LET h == CHOOSE x \in hits : TRUE IN sp[h[1]].items[h[2]].quantity

RowsIn(ir, q) == {r \in ir : r.room_id.project_id = q}

\* C29: a steal from a project Q that holds no ItemRoom row of the item leaves
\* Q's ItemRoom rows and the ItemProject row (item, Q) as they were (none is
\* created), and still adds 1 to the target's Unassigned row, records the sku
\* against Q in the stolen-reservation record and checks the unit out to the
\* target.
C29_StealWithoutRow ==
    [][(/\ InLoop
        /\ IsSteal(itemsU[Current])
        /\ RoomsOf(itemRoom, itemsU[Current].item_id, itemsU[Current].project_id) = {}
        /\ idx' = idx + 1)
       => LET u == Current
              X == itemsU[u].item_id
              Q == itemsU[u].project_id
          IN /\ RowsIn(itemRoom', Q) = RowsIn(itemRoom, Q)
             /\ {r \in itemProject' : r.item_id = X /\ r.project_id = Q}
                  = {r \in itemProject : r.item_id = X /\ r.project_id = Q}
             /\ QtyOf(itemRoom', X, Unassigned(project_id))
                  = QtyOf(itemRoom, X, Unassigned(project_id)) + 1
             /\ Recorded(stolen_projects', Q, sku_num(X))
                  = Recorded(stolen_projects, Q, sku_num(X)) + 1
             /\ itemsU'[u].stage = "c"
             /\ itemsU'[u].project_id = project_id]_vars

\* A one-unit steal from a project with no ItemRoom and no ItemProject row of
\* the item: the record names the project, and it still has no ItemProject row.
C29_Witness ==
    /\ pc \in {"email", "cleanup", "done"}
    /\ HadStaged
    /\ Len(PreStaged) = 1
    /\ LET u == PreStaged[1]
           X == pre.itemsU[u].item_id
           Q == pre.itemsU[u].project_id
       IN /\ pre.itemsU[u].stage = "r"
          /\ Q # project_id
          /\ RoomsOf(pre.itemRoom, X, Q) = {}
          /\ \A r \in itemProject : ~(r.item_id = X /\ r.project_id = Q)
          /\ Recorded(stolen_projects, Q, sku_num(X)) = 1
          /\ QtyOf(itemRoom, X, Unassigned(project_id))
               = QtyOf(pre.itemRoom, X, Unassigned(project_id)) + 1
          /\ CheckedOutHere(u)
\* ================================================================== concurrent requests
\* NRequests requests run confirm_checkout at once, request r with the staged
\* list <<r>>, all for the same project; units 1..NRequests are available
\* copies of item 1. The view takes no lock and opens no transaction, so the
\* store calls of the requests interleave freely.
Requests == 1..NRequests

\* ItemRoom row as get_or_create inserts it, before the view sets its counters.
NewItemRoom(item, room) == Row(item, room, 0, 0, 0)

InitRace ==
    /\ itemsU \in {us \in InitItemsU :
                     \A u \in UnitIds : /\ us[u].item_id = 1
                                        /\ u \in Requests => us[u].stage = "a"}
    /\ itemRoom = InitItemRoom(itemsU, "exact")
    /\ rooms = {r.room_id : r \in itemRoom}
    /\ itemProject = InitItemProject(itemRoom)
    /\ items = InitItems(itemsU)
    /\ session = [k \in {} |-> <<>>]
    /\ itemLog = {}
    /\ outbox = <<>>
    /\ pc = "none"
    /\ project_id \in ProjectIds
    /\ idx = 1
    /\ item_id_list = <<>>
    /\ stolen_projects = <<>>
    /\ mail_pos = <<1, 1>>
    /\ response = "none"
    /\ pre = [itemsU |-> itemsU, itemRoom |-> itemRoom,
              itemProject |-> itemProject, session |-> session, run |-> 1]
    /\ upload = UploadIdle
    /\ requests = [r \in Requests |->
                     [pc |-> "room", created |-> FALSE, reserved_quantity |-> 0,
                      item_room |-> NewItemRoom(1, Unassigned(project_id))]]

serial == <<session, outbox, pc, project_id, idx, item_id_list,
            stolen_projects, mail_pos, response, pre, upload>>

\* Model.save(): UPDATE by key, INSERT when no row has it.
SaveRow(ir, row) ==
    {x \in ir : ~(x.item_id = row.item_id /\ x.room_id = row.room_id)} \cup {row}

\* Lines 33-38: Room.objects.get_or_create(project, "Unassigned"), save().
GetOrCreateRoom(r) ==
    /\ requests[r].pc = "room"
    /\ rooms' = rooms \cup {Unassigned(project_id)}
    /\ requests' = [requests EXCEPT ![r].pc = "item_room"]
    /\ UNCHANGED <<itemsU, itemRoom, itemProject, items, itemLog, serial>>

\* Lines 41-44: ItemRoom.objects.get_or_create(item, room).
GetOrCreateItemRoom(r) ==
    /\ requests[r].pc = "item_room"
    /\ LET room == Unassigned(project_id)
           found == HasRow(itemRoom, 1, room)
       IN /\ itemRoom' = IF found THEN itemRoom ELSE itemRoom \cup {NewItemRoom(1, room)}
          /\ requests' = [requests EXCEPT
                            ![r].pc = "save_item_room",
                            ![r].created = ~found,
                            ![r].item_room = IF found THEN GetRow(itemRoom, 1, room)
                                             ELSE NewItemRoom(1, room)]
    /\ UNCHANGED <<itemsU, rooms, itemProject, items, itemLog, serial>>

\* Lines 46-55: +1 on the counters of the object read, or 1 on the one created;
\* item_room.save().
SaveItemRoom(r) ==
    /\ requests[r].pc = "save_item_room"
    /\ LET old == requests[r].item_room
           new == IF requests[r].created
                  THEN Row(old.item_id, old.room_id, 1, 1, 1)
                  ELSE Row(old.item_id, old.room_id, old.item_quantity + 1,
                           old.item_quantity_holder + 1, old.all_reserved + 1)
       IN /\ itemRoom' = SaveRow(itemRoom, new)
          /\ requests' = [requests EXCEPT ![r].pc = "item_project", ![r].item_room = new]
    /\ UNCHANGED <<itemsU, rooms, itemProject, items, itemLog, serial>>

\* Line 58: ItemProject.objects.get_or_create(item, project).
GetOrCreateItemProject(r) ==
    /\ requests[r].pc = "item_project"
    /\ itemProject' =
         IF \E x \in itemProject : x.item_id = 1 /\ x.project_id = project_id
         THEN itemProject
         ELSE itemProject \cup {[item_id |-> 1, project_id |-> project_id,
                                 reserved_quantity |-> 0]}
    /\ requests' = [requests EXCEPT ![r].pc = "sum"]
    /\ UNCHANGED <<itemsU, rooms, itemRoom, items, itemLog, serial>>

\* Lines 59-62: the sum of item_quantity over the project's ItemRoom rows of the item.
SumItemRooms(r) ==
    /\ requests[r].pc = "sum"
    /\ requests' = [requests EXCEPT
                      ![r].pc = "save_item_project",
                      ![r].reserved_quantity = SumQty(RoomsOf(itemRoom, 1, project_id))]
    /\ UNCHANGED <<store, itemLog, serial>>

\* Line 63: ip.save().
SaveItemProject(r) ==
    /\ requests[r].pc = "save_item_project"
    /\ itemProject' =
         {x \in itemProject : ~(x.item_id = 1 /\ x.project_id = project_id)}
         \cup {[item_id |-> 1, project_id |-> project_id,
                reserved_quantity |-> requests[r].reserved_quantity]}
    /\ requests' = [requests EXCEPT ![r].pc = "delete_empty"]
    /\ UNCHANGED <<itemsU, rooms, itemRoom, items, itemLog, serial>>

\* Line 66: ItemRoom.objects.filter(item_quantity__lt=1).delete().
DeleteEmpty(r) ==
    /\ requests[r].pc = "delete_empty"
    /\ itemRoom' = DeleteEmptyRows(itemRoom)
    /\ requests' = [requests EXCEPT ![r].pc = "save_unit"]
    /\ UNCHANGED <<itemsU, rooms, itemProject, items, itemLog, serial>>

\* Lines 167-178: the audit-log write (its failure is swallowed), then stage "c"
\* and the project on the request's unit; item_u.save().
SaveUnit(r) ==
    /\ requests[r].pc = "save_unit"
    /\ \E logged \in BOOLEAN :
         itemLog' = IF logged
                    THEN itemLog \cup {[action |-> "c", item_u_id |-> r,
                                        project_id |-> project_id]}
                    ELSE itemLog
    /\ itemsU' = [itemsU EXCEPT ![r] = [@ EXCEPT !.stage = "c", !.project_id = project_id]]
    /\ requests' = [requests EXCEPT ![r].pc = "finish"]
    /\ UNCHANGED <<rooms, itemRoom, itemProject, items, serial>>

\* Lines 218-233: recalc the item, sweep all_reserved < 1, answer success.
FinishRequest(r) ==
    /\ requests[r].pc = "finish"
    /\ items' = update_item_quantities(items, 1)
    /\ itemRoom' = DeleteUnreservedRows(itemRoom)
    /\ requests' = [requests EXCEPT ![r].pc = "done"]
    /\ UNCHANGED <<itemsU, rooms, itemProject, itemLog, serial>>

NextRace ==
    \E r \in Requests :
      \/ GetOrCreateRoom(r)
      \/ GetOrCreateItemRoom(r)
      \/ SaveItemRoom(r)
      \/ GetOrCreateItemProject(r)
      \/ SumItemRooms(r)
      \/ SaveItemProject(r)
      \/ DeleteEmpty(r)
      \/ SaveUnit(r)
      \/ FinishRequest(r)

SpecRace == InitRace /\ [][NextRace]_vars

\* C30: when the concurrent requests have all answered, the (item, Unassigned)
\* row of the project has each of its three counters raised by the number of
\* requests, and the ItemProject row equals the sum over the project's ItemRoom
\* rows, as after a serial execution.
C30_ConcurrentAsSerial ==
    (\A r \in Requests : requests[r].pc = "done")
    => LET room == Unassigned(project_id)
           before == IF HasRow(pre.itemRoom, 1, room) THEN GetRow(pre.itemRoom, 1, room)
                     ELSE NewItemRoom(1, room)
       IN /\ HasRow(itemRoom, 1, room)
          /\ GetRow(itemRoom, 1, room)
               = Row(1, room, before.item_quantity + NRequests,
                     before.item_quantity_holder + NRequests,
                     before.all_reserved + NRequests)
          /\ \E x \in itemProject :
               /\ x.item_id = 1 /\ x.project_id = project_id
               /\ x.reserved_quantity = SumQty(RoomsOf(itemRoom, 1, project_id))

====
